---- MODULE Spec2Model ----
(***************************************************************************)
(* Sparse N-dimensional matrix (src/src/matrix.h): a Matrix owns one       *)
(* associative container _data from coordinate tuples to values; cells     *)
(* that are not stored read as the Default value.  Clients reach cells     *)
(* through value_ref handles, index_proxy chains and matrix_iterator.      *)
(***************************************************************************)
EXTENDS Integers, Sequences, FiniteSets, TLC

\* ------------------------------------------------------------------------
\* Bounds of the model
\* ------------------------------------------------------------------------
\* coordinates are std::size_t; the model draws the coordinates whose indices
\* add up to at most MaxIndex
MaxIndex == 1
\* element values are drawn from 0..MaxValue
MaxValue == 2
\* set() adds a new entry only while fewer than MaxEntries are stored
MaxEntries == 2
\* the client of the index chain stores at most MaxChainEntries cells
MaxChainEntries == 1
\* an index chain is followed while it holds fewer than MaxChain indices
MaxChain == 4

\* template parameter Default of the Matrix under study
Default == 0

\* the client holds two value_ref variables
Handles == {1, 2}
\* the Container template parameter: std::map or std::unordered_map
Containers == {"map", "unordered_map"}

Indexes == 0..MaxIndex
Values == 0..MaxValue

\* detail::tuple_n_t<std::size_t, n>: the tuples of n indices
tuple_n_t(n) == [1..n -> Indexes]

RECURSIVE IndexSum(_)
IndexSum(t) == IF Len(t) = 0 THEN 0 ELSE t[1] + IndexSum(Tail(t))

\* the coordinates of an n-dimensional matrix that the model uses
Coordinates(n) == {t \in tuple_n_t(n) : IndexSum(t) <= MaxIndex}

VARIABLES
  Dimensions,   \* template parameter Dimensions of this matrix
  container,    \* template parameter Container of this matrix
  _data,        \* Matrix::_data: the entries, in the container's traversal order
  handles,      \* the client's value_ref objects
  proxy,        \* the client's index_proxy object
  it,           \* the client's matrix_iterator
  walk,         \* the records a traversal from begin() has produced so far
  supplied,     \* history: the indices given along the client's index chain
  rawDefault,   \* history: a Default value was stored directly, by set() or by the
                \* container given to the constructor or to the assignment
  last          \* history: the last operation, its value and its outcome

vars == <<Dimensions, container, _data, handles, proxy, it, walk, supplied, rawDefault, last>>

\* ------------------------------------------------------------------------
\* The associative container (std::map / std::unordered_map)
\* ------------------------------------------------------------------------
\* std::tuple operator<: lexicographic comparison, the key order of std::map
TupleLess(a, b) ==
  \E i \in 1..Len(a) :
    /\ a[i] < b[i]
    /\ \A j \in 1..(i - 1) : a[j] = b[j]

\* _data.end(), _data.cend(): the position one past the last entry
data_end(d) == Len(d) + 1

\* operator^ on std::size_t
RECURSIVE Xor(_, _)
Xor(a, b) ==
  IF a = 0 THEN b
  ELSE IF b = 0 THEN a
  ELSE (((a % 2) + (b % 2)) % 2) + (2 * Xor(a \div 2, b \div 2))

\* std::hash<std::size_t>: the standard libraries return the value itself
std_hash(x) == x

\* tuple_hasher::hash_impl: (std::hash(std::get<Indexes>(tuple)) ^ ...), a
\* right fold over the components from Indexes = i on
RECURSIVE hash_impl(_, _)
hash_impl(tuple, i) ==
  IF i = Len(tuple)
  THEN std_hash(tuple[i])
  ELSE Xor(std_hash(tuple[i]), hash_impl(tuple, i + 1))

\* tuple_hasher::operator()
tuple_hasher(tuple) == hash_impl(tuple, 1)

\* a lookup that takes equal hashes for equal keys
find_by_hash(d, key) ==
  IF \E i \in 1..Len(d) : tuple_hasher(d[i].first) = tuple_hasher(key)
  THEN CHOOSE i \in 1..Len(d) : tuple_hasher(d[i].first) = tuple_hasher(key)
  ELSE data_end(d)

\* Container::find(key): the position of the entry with this key, else end()
find(d, key) ==
  IF \E i \in 1..Len(d) : d[i].first = key
  THEN CHOOSE i \in 1..Len(d) : d[i].first = key
  ELSE data_end(d)

\* Container::erase(iterator): the entry is unlinked, the others keep their order
erase_iter(d, i) == SubSeq(d, 1, i - 1) \o SubSeq(d, i + 1, Len(d))

InsertAt(d, p, e) == SubSeq(d, 1, p - 1) \o <<e>> \o SubSeq(d, p, Len(d))

\* every traversal order of the entries of d
Orders(d) ==
  {[i \in 1..Len(d) |-> d[f[i]]] :
     f \in {g \in [1..Len(d) -> 1..Len(d)] : \A i, j \in 1..Len(d) : g[i] = g[j] => i = j}}

\* Container::insert(key, val): an existing entry keeps its value
insert_only(kind, d, key, val) ==
  LET i == find(d, key)
      e == [first |-> key, second |-> val]
  IN IF i # data_end(d)
     THEN {d}
     ELSE IF kind = "map"
          THEN {InsertAt(d, 1 + Cardinality({j \in 1..Len(d) : TupleLess(d[j].first, key)}), e)}
          ELSE Orders(Append(d, e))

\* Container::insert_or_assign(key, val): the containers that can result.
\* An existing entry is overwritten in place.  A new entry goes to its sorted
\* place in std::map; std::unordered_map leaves the traversal order after an
\* insertion (and a possible rehash) unspecified.
insert_or_assign(kind, d, key, val) ==
  LET i == find(d, key)
      e == [first |-> key, second |-> val]
  IN IF i # data_end(d)
     THEN {[d EXCEPT ![i] = e]}
     ELSE IF kind = "map"
          THEN {InsertAt(d, 1 + Cardinality({j \in 1..Len(d) : TupleLess(d[j].first, key)}), e)}
          ELSE Orders(Append(d, e))

\* ------------------------------------------------------------------------
\* Matrix
\* ------------------------------------------------------------------------
\* Matrix::size
size(d) == Len(d)

\* Matrix::empty
empty(d) == Len(d) = 0

\* a set() through Container::emplace, which keeps an existing entry
set_emplace(kind, d, val, pos) == insert_only(kind, d, pos, val)

\* Matrix::set(val, pos...)
set(kind, d, val, pos) == insert_or_assign(kind, d, pos, val)

\* Matrix::get_or_default(pos...)
get_or_default(d, pos) ==
  LET iter == find(d, pos)
  IN IF iter # data_end(d) THEN d[iter].second ELSE Default

\* a lookup through Container::operator[], which inserts a missing key
subscript_data(d, pos) ==
  IF \E i \in 1..Len(d) : d[i].first = pos
  THEN d
  ELSE Append(d, [first |-> pos, second |-> Default])

\* Matrix::get_or_default(pos...) is const and only calls find(): the
\* container after the call
get_or_default_data(d, pos) == d

\* an erase whose test is inverted: the found entry is kept
erase_inverted(d, pos) ==
  LET iter == find(d, pos)
  IN IF iter = data_end(d) /\ Len(d) > 0 THEN erase_iter(d, Len(d)) ELSE d

\* Matrix::erase(pos...)
erase(d, pos) ==
  LET iter == find(d, pos)
  IN IF iter # data_end(d) THEN erase_iter(d, iter) ELSE d

\* ------------------------------------------------------------------------
\* value_ref
\* ------------------------------------------------------------------------
\* value_ref::value_ref(matrix, indexes...): the handle is the bound position
value_ref(indexes) == [position |-> indexes]

\* a client variable that holds no value_ref yet
NoRef == [position |-> <<>>]

\* Matrix::at(pos...)
at(pos) == value_ref(pos)

\* value_ref::get
value_ref_get(d, ref) == get_or_default(d, ref.position)

\* value_ref::operator==(const T&)
value_ref_eq(d, ref, rhs) == rhs = value_ref_get(d, ref)

\* value_ref::operator T
value_ref_T(d, ref) == value_ref_get(d, ref)

\* The right-hand sides of h = rhs: a value of an arithmetic type U, the
\* number high * 2^32 + twice / 2.  The client assigns the values of the
\* element type, the double 0.5 and the long long 2^32.
Rhs ==
  {[U |-> "int", high |-> 0, twice |-> 2 * v] : v \in Values}
    \cup {[U |-> "double", high |-> 0, twice |-> 1],
          [U |-> "long long", high |-> 1, twice |-> 0]}

\* rhs == Default in value_ref::operator=: the comparison is made on the U
\* given, in the common type of U and T, which holds both numbers exactly
rhs_eq_Default(rhs) == rhs.high = 0 /\ rhs.twice = 2 * Default

\* T(rhs), the conversion to the mapped type in insert_or_assign, for
\* T = int: a double is truncated, a long long is reduced modulo 2^32
to_T(rhs) == rhs.twice \div 2

\* value_ref::operator=(U&& rhs) with a value: the containers that can result
value_ref_assign(kind, d, ref, rhs) ==
  IF rhs_eq_Default(rhs)
  THEN {erase(d, ref.position)}
  ELSE set(kind, d, to_T(rhs), ref.position)

\* an assignment between handles that writes nothing
value_ref_assign_ref_nothing(kind, d, ref, rhs) == {d}

\* value_ref::operator=(U&& rhs) with U = value_ref&: rhs == Default reads
\* through rhs, and set() converts rhs to T when the entry is written
value_ref_assign_ref(kind, d, ref, rhs) ==
  IF value_ref_eq(d, rhs, Default)
  THEN {erase(d, ref.position)}
  ELSE set(kind, d, value_ref_T(d, rhs), ref.position)

\* ------------------------------------------------------------------------
\* State
\* ------------------------------------------------------------------------
NoProxy == [Order |-> 0, current_index |-> <<>>]
NoIter == [state |-> "none", iter |-> <<>>]
NoWalk == [active |-> FALSE, steps |-> 0, seen |-> <<>>]
\* last: the operation, the client variable it used, the value given or
\* returned, its boolean outcome, the size() before it and the record returned
Op(name, h, val, flag, n) ==
  [op |-> name, h |-> h, val |-> val, flag |-> flag, n |-> n, rec |-> <<>>]

NoOp == Op("init", 0, Default, FALSE, 0)

\* whether the entry at pos is stored
Present(d, pos) == find(d, pos) # data_end(d)

\* the model follows set() of a new key only below MaxEntries
Room(d, pos) == Present(d, pos) \/ size(d) < MaxEntries

\* the contents a Container of this kind can have with at most entries
\* entries: the keys differ, and std::map keeps them in the order of operator<
Stores(n, kind, entries) ==
  {d \in UNION {[1..k -> [first : Coordinates(n), second : Values]] : k \in 0..entries} :
     /\ \A i, j \in 1..Len(d) : d[i].first = d[j].first => i = j
     /\ kind = "map" => \A i \in 1..(Len(d) - 1) : TupleLess(d[i].first, d[i + 1].first)}

\* whether d holds an entry with the Default value
HoldsDefault(d) == \E i \in 1..Len(d) : d[i].second = Default

\* Matrix::Matrix(args...): _data(std::forward<Args>(args)...), the container
\* built from the arguments: empty for no argument or a bucket count, a copy
\* of the container or of the initializer list given otherwise
InitFor(instantiations, entries) ==
  /\ \E inst \in instantiations : Dimensions = inst[1] /\ container = inst[2]
  /\ _data \in Stores(Dimensions, container, entries)
  /\ handles = [h \in Handles |-> NoRef]
  /\ proxy = NoProxy
  /\ it = NoIter
  /\ walk = NoWalk
  /\ supplied = <<>>
  /\ rawDefault = HoldsDefault(_data)
  /\ last = NoOp

\* the keys stored in d
Keys(d) == {d[i].first : i \in 1..Len(d)}

\* the past-the-end position of a matrix_iterator
End == <<>>
Invalid == [state |-> "invalid", iter |-> <<>>]

\* The container's invalidation rules: an iterator to an erased entry is
\* invalidated; an insertion into std::unordered_map may rehash, which
\* invalidates every iterator; std::map iterators survive other changes.
Invalidated(kind, i, old, new) ==
  IF i.state # "valid" THEN {i}
  ELSE IF i.iter # End /\ i.iter \notin Keys(new) THEN {Invalid}
  ELSE IF kind = "unordered_map" /\ size(new) > size(old) THEN {i, Invalid}
  ELSE {i}

\* the container becomes new: the traversal being recorded ends and the
\* client's iterator follows the invalidation rules
Mutate(new) ==
  /\ _data' = new
  /\ walk' = NoWalk
  /\ it' \in Invalidated(container, it, _data, new)

\* auto h = matrix.at(pos...)
At(h, pos) ==
  /\ handles' = [handles EXCEPT ![h] = at(pos)]
  /\ last' = Op("at", h, Default, FALSE, size(_data))
  /\ UNCHANGED <<Dimensions, container, _data, proxy, it, walk, supplied, rawDefault>>

\* auto a = b (copy construction of a value_ref)
CopyHandle(a, b) ==
  /\ a # b
  /\ handles[b] # NoRef
  /\ handles' = [handles EXCEPT ![a] = handles[b]]
  /\ last' = Op("copy", a, Default, FALSE, size(_data))
  /\ UNCHANGED <<Dimensions, container, _data, proxy, it, walk, supplied, rawDefault>>

\* h = rhs (value_ref::operator= with a value); last keeps the value of
\* rhs as a T and, in rec, the outcome of rhs == Default
Assign(h, rhs) ==
  /\ handles[h] # NoRef
  /\ ~rhs_eq_Default(rhs) => Room(_data, handles[h].position)
  /\ \E new \in value_ref_assign(container, _data, handles[h], rhs) : Mutate(new)
  /\ last' = [Op("assign", h, to_T(rhs), Present(_data, handles[h].position), size(_data))
                EXCEPT !.rec = <<rhs_eq_Default(rhs)>>]
  /\ UNCHANGED <<Dimensions, container, handles, proxy, supplied, rawDefault>>

\* a = b (value_ref::operator= with another value_ref)
AssignHandle(a, b) ==
  /\ handles[a] # NoRef
  /\ handles[b] # NoRef
  /\ value_ref_get(_data, handles[b]) # Default => Room(_data, handles[a].position)
  /\ \E new \in value_ref_assign_ref(container, _data, handles[a], handles[b]) : Mutate(new)
  /\ last' = Op("assign_ref", a, value_ref_get(_data, handles[b]),
                Present(_data, handles[a].position), size(_data))
  /\ UNCHANGED <<Dimensions, container, handles, proxy, supplied, rawDefault>>

\* matrix.set(v, pos...)
Set(v, pos) ==
  /\ Room(_data, pos)
  /\ \E new \in set(container, _data, v, pos) : Mutate(new)
  /\ rawDefault' = (rawDefault \/ v = Default)
  /\ last' = Op("set", 0, Default, FALSE, 0)
  /\ UNCHANGED <<Dimensions, container, handles, proxy, supplied>>

\* matrix.erase(pos...)
Erase(pos) ==
  /\ Mutate(erase(_data, pos))
  /\ last' = Op("erase", 0, Default, FALSE, 0)
  /\ UNCHANGED <<Dimensions, container, handles, proxy, supplied, rawDefault>>

\* matrix.get_or_default(pos...)
GetOrDefault(pos) ==
  /\ last' = Op("get_or_default", 0, get_or_default(_data, pos), Present(_data, pos), size(_data))
  /\ _data' = get_or_default_data(_data, pos)
  /\ UNCHANGED <<Dimensions, container, handles, proxy, it, walk, supplied, rawDefault>>

\* T v = h, h.get() (value_ref::operator T, value_ref::get)
Read(h) ==
  /\ handles[h] # NoRef
  /\ last' = Op("get", h, value_ref_T(_data, handles[h]),
                Present(_data, handles[h].position), size(_data))
  /\ _data' = get_or_default_data(_data, handles[h].position)
  /\ UNCHANGED <<Dimensions, container, handles, proxy, it, walk, supplied, rawDefault>>

\* h == v (value_ref::operator==)
Equals(h, v) ==
  /\ handles[h] # NoRef
  /\ last' = Op("eq", h, v, value_ref_eq(_data, handles[h], v), size(_data))
  /\ _data' = get_or_default_data(_data, handles[h].position)
  /\ UNCHANGED <<Dimensions, container, handles, proxy, it, walk, supplied, rawDefault>>

\* the client works with one handle and with the matrix's own operations
Next ==
  \/ \E pos \in Coordinates(Dimensions) : At(1, pos)
  \/ \E rhs \in Rhs : Assign(1, rhs)
  \/ \E v \in Values, pos \in Coordinates(Dimensions) : Set(v, pos)
  \/ \E pos \in Coordinates(Dimensions) : Erase(pos)
  \/ \E pos \in Coordinates(Dimensions) : GetOrDefault(pos)
  \/ Read(1)
  \/ \E v \in Values : Equals(1, v)

\* Matrix<int, Default, 1> over both containers, Matrix<int, Default, 2>
Init == InitFor({<<1, "map">>, <<1, "unordered_map">>, <<2, "map">>}, MaxEntries)

Spec == Init /\ [][Next]_vars

\* the client works with two handles
NextHandles ==
  \/ \E h \in Handles, pos \in Coordinates(Dimensions) : At(h, pos)
  \/ \E a, b \in Handles : CopyHandle(a, b)
  \/ \E h \in Handles, rhs \in Rhs : Assign(h, rhs)
  \/ \E a, b \in Handles : AssignHandle(a, b)
  \/ \E h \in Handles : Read(h)

\* Matrix<int, Default, 1> over both containers; a value_ref holds its
\* position tuple whatever the number of dimensions
InitHandles == InitFor({<<1, "map">>, <<1, "unordered_map">>}, MaxEntries)

SpecHandles == InitHandles /\ [][NextHandles]_vars

\* ------------------------------------------------------------------------
\* index_proxy: chained indexing m[i][j]...
\* ------------------------------------------------------------------------
\* Order is a std::size_t template argument: Order - 1 is taken modulo 2^64.
\* The model writes the wrapped values 2^64 - k as -k, so that 0 - 1 is -1;
\* no chain of the model is long enough to wrap back to 1.
OrderMinusOne(order) == order - 1

\* index_proxy::index_proxy(matrix, pos...)
index_proxy(order, pos) == [Order |-> order, current_index |-> pos]

\* Matrix::operator[](index): index_proxy<Matrix, Dimensions - 1>{*this, index}
matrix_subscript(dims, index) == index_proxy(OrderMinusOne(dims), <<index>>)

\* a chain step that puts the new index in front of the ones held
index_proxy_subscript_front(p, last_index) ==
  IF p.Order = 1
  THEN [type |-> "value_ref", ref |-> at(<<last_index>> \o p.current_index)]
  ELSE [type |-> "index_proxy",
        proxy |-> index_proxy(OrderMinusOne(p.Order), <<last_index>> \o p.current_index)]

\* index_proxy::operator[](last_index): with Order = 1 the value_ref of
\* matrix.at(pos..., last_index), otherwise index_proxy<Order - 1>
index_proxy_subscript(p, last_index) ==
  IF p.Order = 1
  THEN [type |-> "value_ref", ref |-> at(Append(p.current_index, last_index))]
  ELSE [type |-> "index_proxy",
        proxy |-> index_proxy(OrderMinusOne(p.Order), Append(p.current_index, last_index))]

\* auto p = matrix[i]
Index(i) ==
  /\ proxy' = matrix_subscript(Dimensions, i)
  /\ supplied' = <<i>>
  /\ last' = Op("subscript", 0, Default, FALSE, size(_data))
  /\ UNCHANGED <<Dimensions, container, _data, handles, it, walk, rawDefault>>

\* p[j]: the next index_proxy of the chain, or the value_ref that ends it,
\* which the client keeps in its first handle variable
ProxyIndex(j) ==
  /\ proxy # NoProxy
  /\ Len(proxy.current_index) < MaxChain
  /\ IndexSum(proxy.current_index) + j <= MaxIndex
  /\ LET r == index_proxy_subscript(proxy, j)
     IN IF r.type = "value_ref"
        THEN /\ handles' = [handles EXCEPT ![1] = r.ref]
             /\ proxy' = NoProxy
             /\ last' = Op("chain", 1, Default, TRUE, size(_data))
        ELSE /\ proxy' = r.proxy
             /\ handles' = handles
             /\ last' = Op("chain", 0, Default, FALSE, size(_data))
  /\ supplied' = Append(supplied, j)
  /\ UNCHANGED <<Dimensions, container, _data, it, walk, rawDefault>>

\* the client indexes the matrix, by chain and by at(), and uses the handle
NextIndex ==
  \/ \E i \in Indexes : Index(i)
  \/ \E j \in Indexes : ProxyIndex(j)
  \/ \E pos \in Coordinates(Dimensions) : At(1, pos)
  \/ \E rhs \in Rhs :
       /\ ~rhs_eq_Default(rhs) /\ ~Present(_data, handles[1].position) => size(_data) < MaxChainEntries
       /\ Assign(1, rhs)
  \/ Read(1)

\* Matrix<int, Default, N> for N = 1, 2, 3 over std::map
InitIndex == InitFor({<<1, "map">>, <<2, "map">>, <<3, "map">>}, MaxChainEntries)

SpecIndex == InitIndex /\ [][NextIndex]_vars

\* ------------------------------------------------------------------------
\* matrix_iterator
\* ------------------------------------------------------------------------
\* A container iterator designates a node, which the model names by its key
\* (End for the past-the-end position): it stays on its node when other
\* entries come and go.
NodeAt(d, i) == IF i \in 1..Len(d) THEN d[i].first ELSE End

\* the place of an iterator's node in the traversal order
PosOf(d, i) == IF i.iter = End THEN data_end(d) ELSE find(d, i.iter)

\* matrix_iterator::matrix_iterator(iterator)
matrix_iterator(node) == [state |-> "valid", iter |-> node]

\* Matrix::cbegin
cbegin(d) == matrix_iterator(NodeAt(d, 1))

\* Matrix::begin
begin(d) == cbegin(d)

\* Matrix::cend
cend(d) == matrix_iterator(NodeAt(d, data_end(d)))

\* Matrix::end
end(d) == cend(d)

\* matrix_iterator::operator==
iter_eq(i, j) == i.iter = j.iter

\* matrix_iterator::operator!=
iter_ne(i, j) == i.iter # j.iter

\* matrix_iterator::operator++
iter_inc(d, i) == matrix_iterator(NodeAt(d, PosOf(d, i) + 1))

\* matrix_iterator::operator--
iter_dec(d, i) == matrix_iterator(NodeAt(d, PosOf(d, i) - 1))

\* matrix_iterator::operator*: the first two key components and the value
iter_deref(d, i) ==
  LET e == d[PosOf(d, i)]
  IN <<e.first[1], e.first[2], e.second>>

\* The client keeps to the iterator preconditions of the standard library:
\* it dereferences and increments only a valid iterator that is not end(),
\* decrements only a valid iterator that is not begin(), and drops an
\* iterator that a change of the container has invalidated.
Dereferenceable(d, i) == i.state = "valid" /\ i.iter # End
Decrementable(d, i) == i.state = "valid" /\ PosOf(d, i) > 1

OpRec(name, n, rec) ==
  [op |-> name, h |-> 0, val |-> Default, flag |-> TRUE, n |-> n, rec |-> rec]

\* auto it = matrix.begin(): a traversal starts
Begin ==
  /\ it' = begin(_data)
  /\ walk' = [active |-> TRUE, steps |-> 0, seen |-> <<>>]
  /\ last' = Op("begin", 0, Default, FALSE, size(_data))
  /\ UNCHANGED <<Dimensions, container, _data, handles, proxy, supplied, rawDefault>>

\* auto it = matrix.end()
EndIt ==
  /\ it' = end(_data)
  /\ walk' = NoWalk
  /\ last' = Op("end", 0, Default, FALSE, size(_data))
  /\ UNCHANGED <<Dimensions, container, _data, handles, proxy, supplied, rawDefault>>

\* ++it, it++
Inc ==
  /\ Dereferenceable(_data, it)
  /\ it' = iter_inc(_data, it)
  /\ walk' = IF walk.active THEN [walk EXCEPT !.steps = @ + 1] ELSE walk
  /\ last' = Op("inc", 0, Default, FALSE, size(_data))
  /\ UNCHANGED <<Dimensions, container, _data, handles, proxy, supplied, rawDefault>>

\* --it, it--: the iterator of std::map is bidirectional; that of
\* std::unordered_map is a forward iterator, for which operator-- is not
\* instantiated
Dec ==
  /\ container = "map"
  /\ Decrementable(_data, it)
  /\ it' = iter_dec(_data, it)
  /\ walk' = NoWalk
  /\ last' = Op("dec", 0, Default, FALSE, size(_data))
  /\ UNCHANGED <<Dimensions, container, _data, handles, proxy, supplied, rawDefault>>

\* *it: operator* reads std::get<0> and std::get<1> of the key, so it is
\* instantiated only for Dimensions >= 2
Deref ==
  /\ Dereferenceable(_data, it)
  /\ Dimensions >= 2
  /\ last' = OpRec("deref", size(_data), iter_deref(_data, it))
  /\ UNCHANGED <<Dimensions, container, _data, handles, proxy, it, walk, supplied, rawDefault>>

\* one round of for (auto&& [x, y, data] : matrix): it != end(), *it, ++it
ForStep ==
  /\ walk.active
  /\ Len(walk.seen) = walk.steps
  /\ Dimensions >= 2
  /\ iter_ne(it, end(_data))
  /\ it' = iter_inc(_data, it)
  /\ walk' = [walk EXCEPT !.steps = @ + 1, !.seen = Append(@, iter_deref(_data, it))]
  /\ last' = OpRec("for", size(_data), iter_deref(_data, it))
  /\ UNCHANGED <<Dimensions, container, _data, handles, proxy, supplied, rawDefault>>

\* the client fills the matrix and walks it
NextIter ==
  \/ \E pos \in Coordinates(Dimensions) : At(1, pos)
  \/ \E rhs \in Rhs : Assign(1, rhs)
  \/ \E v \in Values, pos \in Coordinates(Dimensions) : Set(v, pos)
  \/ \E pos \in Coordinates(Dimensions) : Erase(pos)
  \/ Begin
  \/ EndIt
  \/ Inc
  \/ Dec
  \/ Deref
  \/ ForStep

\* Matrix<int, Default, N> for N = 1, 2 over both containers, and for N = 3 over std::map
InitIter == InitFor(({1, 2} \X Containers) \cup {<<3, "map">>}, MaxEntries)

SpecIter == InitIter /\ [][NextIter]_vars

\* ------------------------------------------------------------------------
\* Writes at one coordinate beside entries at other coordinates
\* ------------------------------------------------------------------------
\* matrix.set(v, pos...), the coordinates given kept in last.rec
SetAt(v, pos) ==
  /\ Room(_data, pos)
  /\ \E new \in set(container, _data, v, pos) : Mutate(new)
  /\ rawDefault' = (rawDefault \/ v = Default)
  /\ last' = OpRec("set_at", 0, pos)
  /\ UNCHANGED <<Dimensions, container, handles, proxy, supplied>>

\* matrix.erase(pos...), the coordinates given kept in last.rec
EraseAt(pos) ==
  /\ Mutate(erase(_data, pos))
  /\ last' = OpRec("erase_at", 0, pos)
  /\ UNCHANGED <<Dimensions, container, handles, proxy, supplied, rawDefault>>

\* matrix.at(pos...) = rhs: an assignment through the value_ref that at()
\* returns, the coordinates given kept in last.rec
AssignAt(rhs, pos) ==
  /\ ~rhs_eq_Default(rhs) => Room(_data, pos)
  /\ \E new \in value_ref_assign(container, _data, at(pos), rhs) : Mutate(new)
  /\ last' = OpRec("assign_at", 0, pos)
  /\ UNCHANGED <<Dimensions, container, handles, proxy, supplied, rawDefault>>

\* the client writes through a handle and through set() and erase()
NextWrites ==
  \/ \E rhs \in Rhs, pos \in Coordinates(Dimensions) : AssignAt(rhs, pos)
  \/ \E v \in Values, pos \in Coordinates(Dimensions) : SetAt(v, pos)
  \/ \E pos \in Coordinates(Dimensions) : EraseAt(pos)

\* Matrix<int, Default, 2> over both containers
InitWrites == InitFor({2} \X Containers, MaxEntries)

SpecWrites == InitWrites /\ [][NextWrites]_vars

\* ------------------------------------------------------------------------
\* Standard algorithms over [begin(), end())
\* ------------------------------------------------------------------------
\* the loop of std::max_element(first, last) with the default comparison:
\* if (*largest < *first) largest = first, for every first up to last
RECURSIVE max_element_loop(_, _, _, _)
max_element_loop(d, largest, first, lst) ==
  IF iter_eq(first, lst)
  THEN largest
  ELSE max_element_loop(d,
         IF TupleLess(iter_deref(d, largest), iter_deref(d, first)) THEN first ELSE largest,
         iter_inc(d, first), lst)

\* std::max_element(first, last): last for an empty range, else the first
\* iterator whose record no other record exceeds under std::tuple operator<
max_element(d, first, lst) ==
  IF iter_eq(first, lst) THEN lst ELSE max_element_loop(d, first, iter_inc(d, first), lst)

\* auto max = std::max_element(matrix.begin(), matrix.end())
MaxElement ==
  /\ Dimensions >= 2
  /\ it' = max_element(_data, begin(_data), end(_data))
  /\ walk' = NoWalk
  /\ last' = OpRec("max_element", size(_data),
                   IF empty(_data) THEN <<>> ELSE iter_deref(_data, it'))
  /\ UNCHANGED <<Dimensions, container, _data, handles, proxy, supplied, rawDefault>>

\* matrix = other (the implicitly declared copy assignment of Matrix, which
\* copy-assigns _data): _data takes the content of the other matrix.  The
\* past-the-end iterator of the assigned container stays valid; an iterator
\* to an entry is invalidated, unless other is the matrix itself and the
\* library leaves a self-assignment alone, which is one of the cases where
\* the content given equals the content held.
AssignMatrix(other) ==
  /\ _data' = other
  /\ walk' = NoWalk
  /\ it' \in IF it.state # "valid" \/ it.iter = End THEN {it}
             ELSE IF other = _data THEN {it, Invalid}
             ELSE {Invalid}
  /\ rawDefault' = (rawDefault \/ HoldsDefault(other))
  /\ last' = Op("assign_matrix", 0, Default, FALSE, size(_data))
  /\ UNCHANGED <<Dimensions, container, handles, proxy, supplied>>

\* matrix = std::move(other), matrix = Matrix(...) (the implicitly declared
\* move assignment, which move-assigns _data) from another matrix: _data
\* takes over the entries of the other matrix.  An iterator to an entry is
\* invalidated; the past-the-end iterator may be invalidated (the debug
\* build of the library detaches it, the plain build leaves it equal to end()).
MoveAssignMatrix(other) ==
  /\ _data' = other
  /\ walk' = NoWalk
  /\ it' \in IF it.state # "valid" THEN {it}
             ELSE IF it.iter = End THEN {it, Invalid}
             ELSE {Invalid}
  /\ rawDefault' = (rawDefault \/ HoldsDefault(other))
  /\ last' = Op("move_assign_matrix", 0, Default, FALSE, size(_data))
  /\ UNCHANGED <<Dimensions, container, handles, proxy, supplied>>

\* matrix = std::move(matrix): std::map clears itself and then takes over
\* its own, now empty, content; std::unordered_map returns at once, and its
\* debug build invalidates the iterators to entries all the same.  The
\* past-the-end iterator stays valid in both.
MoveAssignSelf ==
  /\ _data' = IF container = "map" THEN <<>> ELSE _data
  /\ walk' = NoWalk
  /\ it' \in IF it.state # "valid" \/ it.iter = End THEN {it}
             ELSE IF container = "map" THEN {Invalid}
             ELSE {it, Invalid}
  /\ last' = Op("move_assign_self", 0, Default, FALSE, size(_data))
  /\ UNCHANGED <<Dimensions, container, handles, proxy, supplied, rawDefault>>

\* Matrix b = std::move(matrix), other = std::move(matrix) (the implicitly
\* declared move constructor and move assignment, with this matrix as the
\* source): the entries go to the other matrix and _data is left empty.  An
\* iterator to an entry now belongs to the other matrix; the past-the-end
\* iterator may be invalidated (the debug build attaches it to the other
\* container, the plain build leaves it equal to end()).
MoveFromMatrix ==
  /\ _data' = <<>>
  /\ walk' = NoWalk
  /\ it' \in IF it.state # "valid" THEN {it}
             ELSE IF it.iter = End THEN {it, Invalid}
             ELSE {Invalid}
  /\ last' = Op("move_from_matrix", 0, Default, FALSE, size(_data))
  /\ UNCHANGED <<Dimensions, container, handles, proxy, supplied, rawDefault>>

\* the client fills the matrix through a handle or from another matrix,
\* moves it and searches it
NextAlgorithm ==
  \/ \E pos \in Coordinates(Dimensions) : At(1, pos)
  \/ \E rhs \in Rhs : Assign(1, rhs)
  \/ \E other \in Stores(Dimensions, container, MaxEntries) : AssignMatrix(other)
  \/ \E other \in Stores(Dimensions, container, MaxEntries) : MoveAssignMatrix(other)
  \/ MoveAssignSelf
  \/ MoveFromMatrix
  \/ MaxElement

\* Matrix<int, Default, 2> over both containers, Matrix<int, Default, 3> over std::map
InitAlgorithm == InitFor(({2} \X Containers) \cup {<<3, "map">>}, MaxEntries)

SpecAlgorithm == InitAlgorithm /\ [][NextAlgorithm]_vars

\* ------------------------------------------------------------------------
\* Properties of the store and of value_ref (checked under Spec)
\* ------------------------------------------------------------------------
\* the values stored under the key pos, and the value the cell at pos holds
StoredAt(d, pos) == {d[i].second : i \in {j \in 1..Len(d) : d[j].first = pos}}
CellValue(d, pos) ==
  IF StoredAt(d, pos) = {} THEN Default ELSE CHOOSE v \in StoredAt(d, pos) : TRUE

NoDefaultStored ==
  /\ \A i \in 1..Len(_data) : _data[i].second # Default
  /\ size(_data) =
       Cardinality({pos \in Coordinates(Dimensions) : get_or_default(_data, pos) # Default})

\* C1: after any sequence of value_ref assignments, set() and erase(), no
\* stored entry holds the Default value and size() counts exactly the cells
\* that read different from Default.  Stated here for the states that no
\* direct store of Default has led to: the matrix was constructed without a
\* Default-valued entry and set() was given values other than Default, so
\* that every Default value written came through a value_ref.
C1_NoDefaultStored == ~rawDefault => NoDefaultStored

\* C2: assigning Default (a right-hand side that compares equal to Default)
\* through a value_ref bound to c leaves get_or_default(c) = Default; size()
\* drops by exactly 1 if c was stored before and is unchanged if c was absent.
C2_EraseOnDefault ==
  last.op = "assign" /\ last.rec = <<TRUE>> =>
    /\ get_or_default(_data, handles[last.h].position) = Default
    /\ size(_data) = last.n - (IF last.flag THEN 1 ELSE 0)

C2_Witness ==
  /\ last.op = "assign" /\ last.rec = <<TRUE>> /\ last.flag
  /\ last.n = 2 /\ size(_data) = 1

\* C3: assigning a value v of the element type, different from Default,
\* through a value_ref bound to c and reading c yields v; size() grows by
\* exactly 1 if c was absent and is unchanged if c was stored (overwrite).
\* A right-hand side of another type counts with its value as a T.
C3_RoundTrip ==
  last.op = "assign" /\ last.val # Default =>
    /\ get_or_default(_data, handles[last.h].position) = last.val
    /\ size(_data) = last.n + (IF last.flag THEN 0 ELSE 1)

C3_Witness ==
  /\ last.op = "assign" /\ last.val # Default /\ last.flag
  /\ last.n = 2 /\ size(_data) = 2
  /\ value_ref_get(_data, handles[last.h]) = last.val

\* what a read of pos must give: the stored value or Default, with the
\* container, the handles and the iterator left as they were
PureRead(pos, r) ==
  /\ r = CellValue(_data, pos)
  /\ _data' = _data
  /\ size(_data') = size(_data)
  /\ handles' = handles

\* C4: a read of c (get_or_default, value_ref conversion or get, value_ref
\* == comparison) returns the stored value if c is stored and Default if
\* not, and leaves the container exactly as it was; reading an absent cell
\* inserts nothing.
C4_ReadsArePure ==
  [][/\ last'.op = "get_or_default" =>
          \A pos \in Coordinates(Dimensions) : GetOrDefault(pos) => PureRead(pos, last'.val)
     /\ last'.op = "get" => PureRead(handles[last'.h].position, last'.val)
     /\ last'.op = "eq" =>
          /\ PureRead(handles[last'.h].position, CellValue(_data, handles[last'.h].position))
          /\ last'.flag = (last'.val = CellValue(_data, handles[last'.h].position))]_vars

C4_Witness ==
  /\ last.op = "get" /\ ~last.flag /\ last.val = Default
  /\ size(_data) = 1
  /\ handles[last.h].position \notin Keys(_data)

\* C5: when two value_refs are bound to the same coordinate, after an
\* assignment through one a read through the other returns the value
\* written (Default if Default was written); every read through a handle
\* equals get_or_default on the current container.
C5_Aliasing ==
  /\ last.op = "assign" =>
       \A h \in Handles :
         handles[h].position = handles[last.h].position =>
           value_ref_get(_data, handles[h]) = last.val
  /\ last.op = "get" =>
       last.val = get_or_default(_data, handles[last.h].position)

C5_Witness ==
  /\ last.op = "assign" /\ last.h = 1 /\ last.flag /\ last.val # Default
  /\ handles[2] = handles[1]
  /\ value_ref_get(_data, handles[2]) = last.val

\* C10: a = b between value_refs reads the value v of b's cell and does the
\* default-aware write of v at a's coordinate (erase if v = Default, store v
\* otherwise); a stays bound to its coordinate, b's cell reads as before
\* (its entry is untouched when the coordinates differ), and a later write
\* at b's coordinate does not change what a's coordinate reads.  Copy
\* construction copies the binding and leaves the container alone.
C10_HandleAssignCopiesValue ==
  [][/\ last'.op = "assign_ref" =>
          \A b \in Handles :
            LET ca == handles[last'.h].position
                cb == handles[b].position
                v == CellValue(_data, cb)
            IN AssignHandle(last'.h, b) =>
                 /\ handles' = handles
                 /\ StoredAt(_data', ca) = (IF v = Default THEN {} ELSE {v})
                 /\ CellValue(_data', cb) = v
                 /\ ca # cb => StoredAt(_data', cb) = StoredAt(_data, cb)
     /\ last'.op = "copy" =>
          /\ _data' = _data
          /\ \E b \in Handles \ {last'.h} : handles[b] # NoRef /\ handles'[last'.h] = handles[b]
     /\ last'.op = "assign" =>
          \A a \in Handles :
            handles[a] # NoRef /\ handles[a].position # handles[last'.h].position =>
              StoredAt(_data', handles[a].position) = StoredAt(_data, handles[a].position)]_vars

C10_Witness ==
  /\ last.op = "assign_ref" /\ last.h = 1 /\ last.val # Default /\ ~last.flag
  /\ handles[1] # handles[2]
  /\ value_ref_get(_data, handles[1]) = last.val
  /\ value_ref_get(_data, handles[2]) = last.val

\* ------------------------------------------------------------------------
\* Properties of iteration (checked under SpecIter)
\* ------------------------------------------------------------------------
\* a traversal from begin() is at end() after exactly size() steps, and the
\* k-th record of a range-for comes from the k-th stored entry
TraversalComplete ==
  /\ iter_eq(begin(_data), end(_data)) <=> empty(_data)
  /\ walk.active =>
       /\ it.state = "valid"
       /\ walk.steps <= size(_data)
       /\ iter_eq(it, end(_data)) <=> walk.steps = size(_data)
       /\ Len(walk.seen) <= walk.steps
       /\ \A k \in 1..Len(walk.seen) :
            /\ walk.seen[k][1] = _data[k].first[1]
            /\ walk.seen[k][2] = _data[k].first[2]
            /\ walk.seen[k][3] = _data[k].second

\* every record produced by a defined dereference has a value other than Default
RecordsNonDefault ==
  /\ \A k \in 1..Len(walk.seen) : walk.seen[k][3] # Default
  /\ last.op \in {"deref", "for"} => last.rec[3] # Default

\* C6: in every reachable state a forward traversal from begin() reaches
\* end() after exactly size() steps (begin() = end() iff empty), its records
\* match the stored entries one to one, and every record's value differs
\* from Default.  The values are required to differ from Default in the
\* states that no direct store of Default has led to (construction without
\* a Default-valued entry, set() with values other than Default).
C6_IterationComplete == TraversalComplete /\ (~rawDefault => RecordsNonDefault)

\* C8: dereferencing a matrix_iterator at the entry with key (c1, ..., cN)
\* and value v gives the record (c1, ..., cN, v), all N components in
\* dimension order followed by the value, for N = 3 as for N = 2.
C8_RecordShape ==
  last.op = "deref" =>
    last.rec = it.iter \o <<CellValue(_data, it.iter)>>

\* ------------------------------------------------------------------------
\* Properties of chained indexing (checked under SpecIndex)
\* ------------------------------------------------------------------------
\* for N = 2 and N = 3 the chain of N indices ends in the value_ref of at()
\* on the same indices in the same order
ChainIsAt ==
  Dimensions \in {2, 3} /\ last.op = "chain" =>
    /\ last.flag <=> Len(supplied) = Dimensions
    /\ last.flag =>
         /\ handles[1] = at(supplied)
         /\ value_ref_get(_data, handles[1]) = get_or_default(_data, supplied)
         /\ \A rhs \in Rhs :
              value_ref_assign(container, _data, handles[1], rhs) =
                value_ref_assign(container, _data, at(supplied), rhs)

\* C7: for N = 2 and N = 3 the chain m[i1]...[iN] yields a value_ref bound
\* to (i1, ..., iN) in the order given, the coordinate of at(i1, ..., iN):
\* reads and assignments through both agree, and building the chain does
\* not touch the container.
C7_ChainEqualsAt ==
  /\ []ChainIsAt
  /\ [][last'.op \in {"subscript", "chain"} => _data' = _data]_vars

C7_Witness ==
  /\ Dimensions = 3
  /\ last.op = "chain" /\ last.flag
  /\ supplied = <<0, 0, 1>>
  /\ handles[1].position = <<0, 0, 1>>
  /\ value_ref_get(_data, handles[1]) = 2

\* C9: on a matrix of dimensionality 1 a single m[i] gives a value_ref bound
\* to (i); for N > 1 it gives an index_proxy holding (i) with N - 1
\* dimensions remaining, each further step appends one index and decrements
\* the remaining count, and the step taken at count 1 gives the value_ref.
C9_IndexEntryPoint ==
  /\ last.op = "subscript" =>
       IF Dimensions = 1
       THEN proxy = NoProxy /\ handles[1] = value_ref(supplied)
       ELSE proxy = index_proxy(Dimensions - 1, supplied)
  /\ last.op = "chain" =>
       IF last.flag
       THEN Len(supplied) = Dimensions /\ handles[1] = value_ref(supplied)
       ELSE /\ proxy = index_proxy(Dimensions - Len(supplied), supplied)
            /\ proxy.Order >= 1

\* ------------------------------------------------------------------------
\* Properties of standard algorithms (checked under SpecAlgorithm)
\* ------------------------------------------------------------------------
\* the greatest value among the stored entries
MaxStoredValue(d) ==
  CHOOSE v \in {d[i].second : i \in 1..Len(d)} : \A i \in 1..Len(d) : d[i].second <= v

\* C11: on a matrix with at least one stored entry, std::max_element with
\* the default comparison over [begin(), end()) returns an iterator
\* positioned at a stored entry whose value is the greatest stored value.
C11_MaxElementByValue ==
  last.op = "max_element" /\ ~empty(_data) =>
    /\ it.state = "valid"
    /\ it.iter \in Keys(_data)
    /\ get_or_default(_data, it.iter) = MaxStoredValue(_data)

\* ------------------------------------------------------------------------
\* Properties of writes (checked under SpecWrites)
\* ------------------------------------------------------------------------
\* the entries of d at coordinates other than pos
EntriesBeside(d, pos) == {d[i] : i \in {j \in 1..Len(d) : d[j].first # pos}}

\* every coordinate other than pos keeps its entry: stored or not, and its value
Frame(pos) == EntriesBeside(_data', pos) = EntriesBeside(_data, pos)

\* C12: an assignment through a value_ref, a set() or an erase() at
\* coordinate c leaves the presence and the value of the entry at every
\* other coordinate unchanged, also at a coordinate whose tuple_hasher value
\* equals that of c, over std::map and over std::unordered_map.
C12_WriteLocality ==
  [][last'.op \in {"assign_at", "set_at", "erase_at"} => Frame(last'.rec)]_vars

\* a handle has overwritten the entry at (0, 1) of a hash map that also
\* stores (1, 0), whose hash is the same
C12_Witness ==
  /\ container = "unordered_map"
  /\ last.op = "assign_at"
  /\ last.rec = <<0, 1>>
  /\ tuple_hasher(<<0, 1>>) = tuple_hasher(<<1, 0>>)
  /\ get_or_default(_data, <<0, 1>>) = 2
  /\ get_or_default(_data, <<1, 0>>) = 1

====
